---------------------------- MODULE Spec2Model ----------------------------
(***************************************************************************)
(* A model of urlValidator.py: the URLValidator class (format validation,  *)
(* HTTP fetch, page-info extraction, TLS certificate check, SEO scoring)   *)
(* and the main(url) procedure that drives it and writes stdout and the    *)
(* log.                                                                    *)
(*                                                                         *)
(* Conventions.  A URL and an href are sequences of one-character strings, *)
(* so that prefixes can be inspected.  A Python value that may be None is  *)
(* a sequence of length 0 (None) or 1 (the value).  A fetch status is a    *)
(* record that is either an integer status code or a failure label.  The   *)
(* outcomes of the libraries (requests, ssl, validators) are inputs of the *)
(* environment.  A parsed document is the record of the elements that the  *)
(* extraction looks for; a meta element, when present, carries a content   *)
(* attribute.  Elapsed time is in milliseconds.                            *)
(***************************************************************************)
EXTENDS Integers, Sequences, FiniteSets, TLC

VARIABLES
    url,          \* URLValidator.url
    syntax_ok,    \* what validators.url(url) answers for this url
    pc,           \* position of main (or of the scoring call)
    valid,        \* result of is_valid_format, once evaluated
    status_code,  \* main's status_code (line 190)
    https_check,  \* main's https_check (line 191)
    ex_status,    \* status_code inside extract_page_info (line 31)
    page,         \* the document extract_page_info fetched, if any
    parsed,       \* whether BeautifulSoup parsed a body (line 35)
    page_info,    \* main's page_info (line 192)
    ssl_info,     \* main's ssl_info (line 193)
    seo_score,    \* main's seo_score (line 212); None before
    stdout,       \* lines printed
    log,          \* lines appended to url_validator.log
    gets,         \* HTTP GETs issued by get_status_code
    timing_gets,  \* HTTP GETs issued by _measure_page_load_time
    tls,          \* TLS connections attempted
    crashed       \* an exception left main

vars == <<url, syntax_ok, pc, valid, status_code, https_check, ex_status, page,
          parsed, page_info, ssl_info, seo_score, stdout, log, gets,
          timing_gets, tls, crashed>>

----------------------------------------------------------------------------
(* Bounds of the model *)

\* longest sequence of anchor elements in a document
MaxAnchors == 2

----------------------------------------------------------------------------
(* Python values *)

None == <<>>

Some(v) == <<v>>

\* bool(x) of an optional string: None and "" are falsy
Truthy(opt) == opt # None /\ Len(opt[1]) > 0

\* str.startswith on character sequences
StartsWith(s, prefix) ==
    Len(s) >= Len(prefix) /\ SubSeq(s, 1, Len(prefix)) = prefix

UpperCase == <<"A","B","C","D","E","F","G","H","I","J","K","L","M",
               "N","O","P","Q","R","S","T","U","V","W","X","Y","Z">>

LowerCase == <<"a","b","c","d","e","f","g","h","i","j","k","l","m",
               "n","o","p","q","r","s","t","u","v","w","x","y","z">>

\* case folding of one character, as re.IGNORECASE compares
Lower(c) ==
    IF \E i \in 1..Len(UpperCase) : UpperCase[i] = c
    THEN LowerCase[CHOOSE i \in 1..Len(UpperCase) : UpperCase[i] = c]
    ELSE c

LowerAll(s) == [i \in 1..Len(s) |-> Lower(s[i])]

RECURSIVE Rep(_)
\* a string of n characters
Rep(n) ==
    IF n = 0 THEN ""
    ELSE IF n % 2 = 1 THEN "x" \o Rep(n - 1)
    ELSE LET half == Rep(n \div 2) IN half \o half

----------------------------------------------------------------------------
(* Fetch statuses: response.status_code, or the label of a failure *)

IntStatus(n) == [isInt |-> TRUE, code |-> n, label |-> ""]

LabelStatus(s) == [isInt |-> FALSE, code |-> 0, label |-> s]

NoStatus == LabelStatus("")

\* the first components get_status_code can return
StatusOutcomes ==
    { IntStatus(200), IntStatus(404), IntStatus(500),
      LabelStatus("Request Timeout"),
      LabelStatus("Too Many Redirects"),
      LabelStatus("Request Exception: connection refused") }

\* str(status_code) inside an f-string
StatusStr(s) == IF s.isInt THEN ToString(s.code) ELSE s.label

\* a variant that tests isinstance(status_code, int) instead, as main does
NotOk_IntOnly(s) == ~ s.isInt

\* status_code != 200 (a label never equals 200)
NotOk(s) == ~ (s.isInt /\ s.code = 200)

----------------------------------------------------------------------------
(* URLs *)

Colon2Slash == <<":", "/", "/">>

HttpsPrefix == <<"h","t","t","p","s">> \o Colon2Slash

Schemes ==
    { <<"h","t","t","p">>, <<"h","t","t","p","s">>, <<"f","t","p">>,
      <<"H","T","T","P","S">>, <<"H","t","t","p">>, <<"F","T","P">>,
      <<"h","t","t","p","s","x">>, <<"f","i","l","e">>, <<"h","t","p">>,
      <<>> }

Separators == { Colon2Slash, <<":", "/">>, <<>> }

Hosts == { <<"a">>, <<"a", ".", "b", "/", "c">> }

URLs == { s \o p \o h : s \in Schemes, p \in Separators, h \in Hosts } \cup { <<>> }

\* the alternatives of (https?|ftp)
RegexSchemes == { <<"h","t","t","p">>, <<"h","t","t","p","s">>, <<"f","t","p">> }

\* re.match(r'^(https?|ftp)://', url, re.IGNORECASE) is not None
_is_valid_url(u) ==
    \E alt \in RegexSchemes : StartsWith(LowerAll(u), alt \o Colon2Slash)

\* a variant that trusts validators.url alone
is_valid_format_NoRegex(u, ok) == ok

\* self._is_valid_url(self.url) and validators.url(self.url)
is_valid_format(u, ok) == _is_valid_url(u) /\ ok

\* a variant that accepts any scheme beginning with http
is_https_AnyHttp(u) == StartsWith(u, <<"h","t","t","p">>)

\* self.url.startswith('https://')
is_https(u) == StartsWith(u, HttpsPrefix)

----------------------------------------------------------------------------
(* Documents: what BeautifulSoup finds in a response body *)

\* the href attribute of an anchor: None (no attribute) or its value
AnchorOptions == { None, Some(<<>>), Some(<<"/", "a">>), Some(<<"b">>) }

AnchorSeqs == UNION { [1..n -> AnchorOptions] : n \in 0..MaxAnchors }

NoHeadings == [h1 |-> <<>>, h2 |-> <<>>, h3 |-> <<>>, h4 |-> <<>>,
               h5 |-> <<>>, h6 |-> <<>>]

\* a document in which every element the extraction looks for is absent
BarePage ==
    [has_title |-> FALSE, title_string |-> None, description |-> None,
     keywords |-> None, anchors |-> <<>>, headings |-> NoHeadings,
     imgs |-> <<>>, text_length |-> 0, html_length |-> 10,
     viewport |-> FALSE]

\* the response body ""
EmptyPage == [BarePage EXCEPT !.html_length = 0]

RichPage ==
    [has_title |-> TRUE, title_string |-> Some("Home"),
     description |-> Some(Rep(155)), keywords |-> Some("a,b"),
     anchors |-> <<>>,
     headings |-> [NoHeadings EXCEPT !.h1 = <<"A">>, !.h2 = <<"B", "C">>,
                                     !.h3 = <<"D">>],
     imgs |-> <<Some("logo"), None, Some("")>>,
     text_length |-> 1, html_length |-> 5, viewport |-> TRUE]

\* <title><b>x</b><i>y</i></title> has no .string; a short description
MixedPage ==
    [has_title |-> TRUE, title_string |-> None,
     description |-> Some("short"), keywords |-> None, anchors |-> <<>>,
     headings |-> [NoHeadings EXCEPT !.h2 = <<"B">>],
     imgs |-> <<None>>, text_length |-> 1, html_length |-> 10,
     viewport |-> FALSE]

Profiles == { BarePage, EmptyPage, RichPage, MixedPage }

Pages == { [p EXCEPT !.anchors = a] : p \in Profiles, a \in AnchorSeqs }

\* response.elapsed.total_seconds(), or float('inf')
Elapsed(ms) == [inf |-> FALSE, ms |-> ms]

Infinite == [inf |-> TRUE, ms |-> 0]

LoadOutcomes == { Infinite, Elapsed(2000), Elapsed(3000), Elapsed(6000) }

\* page_load_time < n, for n in seconds
LoadBelow(t, n) == ~ t.inf /\ t.ms < n * 1000

Ratio(num, den) == [num |-> num, den |-> den]

\* ratio > 0.1
RatioAboveTenth(r) == r.num * 10 > r.den

\* soup.find_all('a', href=True): the anchors that have an href attribute,
\* whatever its value
find_all_a_href(anchors) == SelectSeq(anchors, LAMBDA a : a # None)

Hrefs(anchors) == [i \in 1..Len(anchors) |-> anchors[i][1]]

internal_links_of(anchors) ==
    SelectSeq(Hrefs(find_all_a_href(anchors)), LAMBDA h : StartsWith(h, <<"/">>))

external_links_of(anchors) ==
    SelectSeq(Hrefs(find_all_a_href(anchors)), LAMBDA h : ~ StartsWith(h, <<"/">>))

\* [img['alt'] for img in images if 'alt' in img.attrs]
alt_tags_of(imgs) ==
    LET have == SelectSeq(imgs, LAMBDA a : a # None)
    IN  [i \in 1..Len(have) |-> have[i][1]]

\* text_length / html_length if html_length > 0 else 0
text_to_html_ratio_of(p) ==
    IF p.html_length > 0 THEN Ratio(p.text_length, p.html_length)
    ELSE Ratio(0, 1)

\* the dict extract_page_info returns for a 200 response
PageInfoDict(p, load) ==
    [title |-> IF p.has_title THEN p.title_string ELSE Some("No Title"),
     description |-> IF p.description # None THEN p.description
                     ELSE Some("No Description"),
     keywords |-> IF p.keywords # None THEN p.keywords
                  ELSE Some("No Keywords"),
     internal_links |-> internal_links_of(p.anchors),
     external_links |-> external_links_of(p.anchors),
     headings |-> p.headings,
     alt_tags |-> alt_tags_of(p.imgs),
     text_to_html_ratio |-> text_to_html_ratio_of(p),
     page_load_time |-> load,
     mobile_friendly |-> p.viewport]

NoDict == PageInfoDict(BarePage, Infinite)

\* page_info: the error string, or the dict
ErrorInfo(s) == [isDict |-> FALSE, err |-> s, d |-> NoDict]

DictInfo(d) == [isDict |-> TRUE, err |-> "", d |-> d]

NoInfo == ErrorInfo("")

----------------------------------------------------------------------------
(* Scoring *)

\* a variant in which an h2 is worth as much as an h1
_seo_analysis_H2Awards10(title, description, keywords, headings, alt_tags, text_to_html_ratio, page_load_time, mobile_friendly, internal_links, external_links) ==
      (IF Truthy(title) /\ Len(title[1]) <= 60 THEN 10
       ELSE IF Truthy(title) THEN 5 ELSE 0)
    + (IF Truthy(description) /\ 150 <= Len(description[1])
                              /\ Len(description[1]) <= 160 THEN 10
       ELSE IF Truthy(description) THEN 5 ELSE 0)
    + (IF Truthy(keywords) THEN 10 ELSE 0)
    + (IF headings.h1 # <<>> THEN 10 ELSE 0)
    + (IF headings.h2 # <<>> THEN 10 ELSE 0)
    + (IF internal_links # <<>> THEN 10 ELSE 0)
    + (IF external_links # <<>> THEN 10 ELSE 0)
    + (IF alt_tags # <<>> THEN 10 ELSE 0)
    + (IF RatioAboveTenth(text_to_html_ratio) THEN 10 ELSE 0)
    + (IF LoadBelow(page_load_time, 3) THEN 10
       ELSE IF LoadBelow(page_load_time, 5) THEN 5 ELSE 0)
    + (IF mobile_friendly THEN 10 ELSE 0)

\* a variant whose partial credit for load time reaches 5 seconds included
_seo_analysis_LoadUpTo5(title, description, keywords, headings, alt_tags, text_to_html_ratio, page_load_time, mobile_friendly, internal_links, external_links) ==
      (IF Truthy(title) /\ Len(title[1]) <= 60 THEN 10
       ELSE IF Truthy(title) THEN 5 ELSE 0)
    + (IF Truthy(description) /\ 150 <= Len(description[1])
                              /\ Len(description[1]) <= 160 THEN 10
       ELSE IF Truthy(description) THEN 5 ELSE 0)
    + (IF Truthy(keywords) THEN 10 ELSE 0)
    + (IF headings.h1 # <<>> THEN 10 ELSE 0)
    + (IF headings.h2 # <<>> THEN 5 ELSE 0)
    + (IF internal_links # <<>> THEN 10 ELSE 0)
    + (IF external_links # <<>> THEN 10 ELSE 0)
    + (IF alt_tags # <<>> THEN 10 ELSE 0)
    + (IF RatioAboveTenth(text_to_html_ratio) THEN 10 ELSE 0)
    + (IF LoadBelow(page_load_time, 3) THEN 10
       ELSE IF ~ page_load_time.inf /\ page_load_time.ms <= 5000 THEN 5
       ELSE 0)
    + (IF mobile_friendly THEN 10 ELSE 0)

_seo_analysis(title, description, keywords, headings, alt_tags, text_to_html_ratio, page_load_time, mobile_friendly, internal_links, external_links) ==
      (IF Truthy(title) /\ Len(title[1]) <= 60 THEN 10
       ELSE IF Truthy(title) THEN 5 ELSE 0)
    + (IF Truthy(description) /\ 150 <= Len(description[1])
                              /\ Len(description[1]) <= 160 THEN 10
       ELSE IF Truthy(description) THEN 5 ELSE 0)
    + (IF Truthy(keywords) THEN 10 ELSE 0)
    + (IF headings.h1 # <<>> THEN 10 ELSE 0)
    + (IF headings.h2 # <<>> THEN 5 ELSE 0)
    + (IF internal_links # <<>> THEN 10 ELSE 0)
    + (IF external_links # <<>> THEN 10 ELSE 0)
    + (IF alt_tags # <<>> THEN 10 ELSE 0)
    + (IF RatioAboveTenth(text_to_html_ratio) THEN 10 ELSE 0)
    + (IF LoadBelow(page_load_time, 3) THEN 10
       ELSE IF LoadBelow(page_load_time, 5) THEN 5 ELSE 0)
    + (IF mobile_friendly THEN 10 ELSE 0)

\* the call of lines 212-215
ScoreOf(d) ==
    _seo_analysis(d.title, d.description, d.keywords, d.headings, d.alt_tags,
                  d.text_to_html_ratio, d.page_load_time, d.mobile_friendly,
                  d.internal_links, d.external_links)

----------------------------------------------------------------------------
(* Output *)

\* print(f"{text}{arg}") or logging.info(f"{text}{arg}")
Line(text, arg) == [text |-> text, arg |-> arg]

YesNo(b) == IF b THEN "Yes" ELSE "No"

\* the ten lines both main and log_results write for the page (200-210, 172-182)
PageLines(d) ==
    << Line("Title: ", d.title),
       Line("Description: ", d.description),
       Line("Keywords: ", d.keywords),
       Line("Internal Links: ", d.internal_links),
       Line("External Links: ", d.external_links),
       Line("Headings: ", d.headings),
       Line("Alt Tags: ", d.alt_tags),
       Line("Text to HTML Ratio: ", d.text_to_html_ratio),
       Line("Page Load Time: ", d.page_load_time),
       Line("Mobile Friendly: ", YesNo(d.mobile_friendly)) >>

\* what main prints before it reads page_info (lines 196-199)
ReportHead(status, https, ssl) ==
    << Line("URL is valid and returned status code: ", StatusStr(status)),
       Line("HTTPS Check: ", YesNo(https)),
       Line("SSL Certificate: ", ssl),
       Line("Page Info:", "") >>

\* log_results(url, status_code, https_check, ssl_info, page_info)
log_results(u, status, https, ssl, d) ==
    << Line("URL: ", u),
       Line("Status Code: ", StatusStr(status)),
       Line("HTTPS Check: ", YesNo(https)),
       Line("SSL Certificate: ", ssl) >> \o PageLines(d)

NoSslMessage == "No SSL Certificate for non-HTTPS URLs"

\* what ssl.get_server_certificate can do: return the PEM text, or raise
TlsCertificates == { "-----BEGIN CERTIFICATE-----" }

TlsErrors == { "timed out", "[Errno -2] Name or service not known" }

----------------------------------------------------------------------------
(* main(url) *)

Init ==
    /\ url \in URLs
    /\ syntax_ok \in BOOLEAN
    /\ pc = "validate"
    /\ valid = FALSE
    /\ status_code = NoStatus
    /\ https_check = FALSE
    /\ ex_status = NoStatus
    /\ page = BarePage
    /\ parsed = FALSE
    /\ page_info = NoInfo
    /\ ssl_info = ""
    /\ seo_score = None
    /\ stdout = <<>>
    /\ log = <<>>
    /\ gets = 0
    /\ timing_gets = 0
    /\ tls = 0
    /\ crashed = FALSE

\* lines 189 and 221-222: the format check, and the else branch
Validate ==
    /\ pc = "validate"
    /\ valid' = is_valid_format(url, syntax_ok)
    /\ IF valid'
       THEN /\ pc' = "get_status"
            /\ stdout' = stdout
       ELSE /\ pc' = "done"
            /\ stdout' = Append(stdout, Line("URL format is invalid.", ""))
    /\ UNCHANGED <<url, syntax_ok, status_code, https_check, ex_status, page,
                   parsed, page_info, ssl_info, seo_score, log, gets,
                   timing_gets, tls, crashed>>

\* lines 190-191: status_code, _ = get_status_code(); https_check = is_https()
GetStatus ==
    /\ pc = "get_status"
    /\ \E s \in StatusOutcomes : status_code' = s
    /\ gets' = gets + 1
    /\ https_check' = is_https(url)
    /\ pc' = "extract"
    /\ UNCHANGED <<url, syntax_ok, valid, ex_status, page, parsed, page_info,
                   ssl_info, seo_score, stdout, log, timing_gets, tls, crashed>>

\* lines 31-61 of extract_page_info: the fetch, the status test, the parse
ExtractFetch ==
    /\ pc = "extract"
    /\ gets' = gets + 1
    /\ \E s \in StatusOutcomes :
          /\ ex_status' = s
          /\ IF NotOk(s)
             THEN /\ page_info' = ErrorInfo("Error: Status code " \o StatusStr(s))
                  /\ UNCHANGED <<page, parsed>>
                  /\ pc' = "ssl"
             ELSE /\ \E p \in Pages : page' = p
                  /\ parsed' = TRUE
                  /\ page_info' = page_info
                  /\ pc' = "measure"
    /\ UNCHANGED <<url, syntax_ok, valid, status_code, https_check, ssl_info,
                   seo_score, stdout, log, timing_gets, tls, crashed>>

\* lines 63-78 and 150-155: the timing fetch, and the dict returned
MeasureLoad ==
    /\ pc = "measure"
    /\ timing_gets' = timing_gets + 1
    /\ \E t \in LoadOutcomes : page_info' = DictInfo(PageInfoDict(page, t))
    /\ pc' = "ssl"
    /\ UNCHANGED <<url, syntax_ok, valid, status_code, https_check, ex_status,
                   page, parsed, ssl_info, seo_score, stdout, log, gets, tls,
                   crashed>>

\* line 193 and lines 80-89: check_ssl_certificate
CheckSsl ==
    /\ pc = "ssl"
    /\ IF ~ is_https(url)
       THEN /\ ssl_info' = NoSslMessage
            /\ tls' = tls
       ELSE /\ tls' = tls + 1
            /\ \E r \in TlsCertificates
                        \cup { "SSL Certificate Error: " \o e : e \in TlsErrors } :
                  ssl_info' = r
    /\ pc' = "report"
    /\ UNCHANGED <<url, syntax_ok, valid, status_code, https_check, ex_status,
                   page, parsed, page_info, seo_score, stdout, log, gets,
                   timing_gets, crashed>>

\* lines 195-220: the report; page_info['title'] of a string raises TypeError
Report ==
    /\ pc = "report"
    /\ pc' = "done"
    /\ IF status_code.isInt
       THEN IF page_info.isDict
            THEN /\ seo_score' = Some(ScoreOf(page_info.d))
                 /\ stdout' = stdout
                      \o ReportHead(status_code, https_check, ssl_info)
                      \o PageLines(page_info.d)
                      \o << Line("SEO Score: ", seo_score'[1]) >>
                 /\ log' = log \o log_results(url, status_code, https_check,
                                              ssl_info, page_info.d)
                 /\ crashed' = crashed
            ELSE /\ stdout' = stdout
                      \o ReportHead(status_code, https_check, ssl_info)
                 /\ crashed' = TRUE
                 /\ UNCHANGED <<seo_score, log>>
       ELSE /\ stdout' = Append(stdout, Line("Error: ", StatusStr(status_code)))
            /\ UNCHANGED <<seo_score, log, crashed>>
    /\ UNCHANGED <<url, syntax_ok, valid, status_code, https_check, ex_status,
                   page, parsed, page_info, ssl_info, gets, timing_gets, tls>>

Next == Validate \/ GetStatus \/ ExtractFetch \/ MeasureLoad \/ CheckSsl \/ Report

Spec == Init /\ [][Next]_vars

----------------------------------------------------------------------------
(* _seo_analysis on its own: the arguments are drawn, then it is called *)

TitleInputs ==
    { None, Some(""), Some("Home"), Some(Rep(60)), Some(Rep(61)) }

DescriptionInputs ==
    { None, Some(""), Some(Rep(149)), Some(Rep(150)), Some(Rep(155)),
      Some(Rep(160)), Some(Rep(161)) }

KeywordsInputs == { None, Some(""), Some("a,b") }

HeadingInputs == { <<>>, <<"A">> }

LinkInputs == { <<>>, << <<"/", "a">> >> }

ExternalInputs == { <<>>, << <<"b">> >> }

AltInputs == { <<>>, <<"logo">> }

RatioInputs == { Ratio(0, 1), Ratio(1, 10), Ratio(1, 5) }

LoadInputs ==
    { Infinite, Elapsed(2000), Elapsed(2999), Elapsed(3000), Elapsed(4999),
      Elapsed(5000) }

SeoInputs ==
    { [title |-> t, description |-> de, keywords |-> k,
       internal_links |-> il, external_links |-> el,
       headings |-> [NoHeadings EXCEPT !.h1 = h1, !.h2 = h2],
       alt_tags |-> al, text_to_html_ratio |-> r, page_load_time |-> lt,
       mobile_friendly |-> m] :
       t \in TitleInputs, de \in DescriptionInputs, k \in KeywordsInputs,
       il \in LinkInputs, el \in ExternalInputs, h1 \in HeadingInputs,
       h2 \in HeadingInputs, al \in AltInputs, r \in RatioInputs,
       lt \in LoadInputs, m \in BOOLEAN }

InitSeo ==
    /\ url = <<>>
    /\ syntax_ok = FALSE
    /\ pc = "seo_call"
    /\ valid = FALSE
    /\ status_code = NoStatus
    /\ https_check = FALSE
    /\ ex_status = NoStatus
    /\ page = BarePage
    /\ parsed = FALSE
    /\ page_info \in { DictInfo(d) : d \in SeoInputs }
    /\ ssl_info = ""
    /\ seo_score = None
    /\ stdout = <<>>
    /\ log = <<>>
    /\ gets = 0
    /\ timing_gets = 0
    /\ tls = 0
    /\ crashed = FALSE

SeoCall ==
    /\ pc = "seo_call"
    /\ seo_score' = Some(ScoreOf(page_info.d))
    /\ pc' = "seo_done"
    /\ UNCHANGED <<url, syntax_ok, valid, status_code, https_check, ex_status,
                   page, parsed, page_info, ssl_info, stdout, log, gets,
                   timing_gets, tls, crashed>>

NextSeo == SeoCall

SpecSeo == InitSeo /\ [][NextSeo]_vars

----------------------------------------------------------------------------
(* Properties *)

Done == pc = "done"

\* main got past the format check and past check_ssl_certificate
PastSsl == valid /\ pc \in {"report", "done"}

\* extract_page_info has fetched
PastExtractFetch == valid /\ pc \in {"measure", "ssl", "report", "done"}

Texts(lines) == [i \in 1..Len(lines) |-> lines[i].text]

\* C1: a run on a failure path (invalid format, or main's fetch failed or
\* returned a status other than 200) ends without an exception and with
\* exactly one stdout line, "URL format is invalid." or "Error: {status}".
C1_FailureIsOneLine ==
    (Done /\ (~ valid \/ status_code # IntStatus(200)))
        => /\ ~ crashed
           /\ Len(stdout) = 1
           /\ stdout[1].text \in {"URL format is invalid.", "Error: "}

\* C2: a URL that does not match ^(https?|ftp):// case-insensitively is
\* never valid, and its run issues no GET and opens no TLS connection,
\* whatever validators.url says of it.
C2_NoMatchNoNetwork ==
    ~ _is_valid_url(url)
        => /\ ~ valid
           /\ gets = 0 /\ timing_gets = 0 /\ tls = 0
           /\ pc \in {"validate", "done"}
           /\ Done => Texts(stdout) = <<"URL format is invalid.">>

C2_Witness ==
    /\ Done /\ ~ _is_valid_url(url) /\ syntax_ok
    /\ url = <<"h", "t", "t", "p", "s", "x", ":", "/", "/", "a">>
    /\ gets = 0 /\ tls = 0

\* the input of the spec's maximum-score example
BestInput ==
    [title |-> Some("Home"), description |-> Some(Rep(155)),
     keywords |-> Some("a,b"), internal_links |-> << <<"/", "a">> >>,
     external_links |-> << <<"b">> >>,
     headings |-> [NoHeadings EXCEPT !.h1 = <<"A">>, !.h2 = <<"A">>],
     alt_tags |-> <<"logo">>, text_to_html_ratio |-> Ratio(1, 5),
     page_load_time |-> Elapsed(2000), mobile_friendly |-> TRUE]

\* C3 as stated: the example input scores 115, the maximum.
C3_MaxIs115 ==
    (pc = "seo_done" /\ page_info.d = BestInput) => seo_score = Some(115)

\* C3 amended: no input scores more than 105, and the example input (title
\* of at most 60 characters, description of length 155, keywords, an h1 and
\* an h2, internal and external links, alt tags, ratio 0.2, load time 2.0,
\* mobile friendly) scores exactly 105.
C3_MaxIs105 ==
    pc = "seo_done"
        => /\ seo_score[1] <= 105
           /\ page_info.d = BestInput => seo_score[1] = 105

C3_Witness ==
    pc = "seo_done" /\ page_info.d = BestInput /\ seo_score = Some(105)

\* every signal the extraction looks for is absent from the document
AllAbsent(p) ==
    /\ ~ p.has_title /\ p.description = None /\ p.keywords = None
    /\ p.headings = NoHeadings
    /\ p.anchors = <<>>
    /\ \A i \in 1..Len(p.imgs) : p.imgs[i] = None
    /\ p.text_length * 10 <= p.html_length
    /\ ~ p.viewport

\* C4: a page on which every signal is absent, loaded in 5 seconds or more
\* (or not at all), scores 0.
C4_AbsentScoresZero ==
    (Done /\ seo_score # None /\ AllAbsent(page)
          /\ (page_info.d.page_load_time.inf
              \/ page_info.d.page_load_time.ms >= 5000))
        => seo_score = Some(0)

\* C5: a run issues at most two GETs, and the status it reports belongs to
\* the fetch whose body it analysed.
C5_AtMostTwoGets ==
    /\ gets + timing_gets <= 2
    /\ (Done /\ page_info.isDict) => gets = 1

\* C6: when the fetch of extract_page_info yields anything but the integer
\* 200, the result is "Error: Status code {status}", nothing is parsed and
\* no timing GET is issued; a timing GET follows only a 200.
C6_ErrorOnNon200 ==
    /\ (PastExtractFetch /\ ex_status # IntStatus(200))
          => /\ page_info.isDict = FALSE
             /\ page_info.err = "Error: Status code " \o
                   (IF ex_status.isInt THEN ToString(ex_status.code)
                    ELSE ex_status.label)
             /\ ~ parsed
             /\ timing_gets = 0
    /\ timing_gets > 0 => ex_status = IntStatus(200)
    /\ parsed => ex_status = IntStatus(200)

C6_Witness ==
    /\ Done
    /\ status_code = IntStatus(200)
    /\ ex_status = LabelStatus("Request Timeout")
    /\ page_info.err = "Error: Status code Request Timeout"
    /\ timing_gets = 0

\* the literal prefix "https://"
HasHttpsPrefix ==
    /\ Len(url) >= 8
    /\ SubSeq(url, 1, 8) = <<"h", "t", "t", "p", "s", ":", "/", "/">>

NonEmptyHrefs(anchors, slash) ==
    LET keep == SelectSeq(anchors,
                   LAMBDA a : /\ a # None
                              /\ a[1] # <<>>
                              /\ (a[1][1] = "/") = slash)
    IN  [i \in 1..Len(keep) |-> keep[i][1]]

\* C8: internal_links and external_links are the hrefs, in document order,
\* of the anchors with a non-empty href that starts, respectively does not
\* start, with "/"; an anchor without href or with an empty one is in
\* neither list.
C8_LinksOfNonEmptyHrefs ==
    page_info.isDict
        => /\ page_info.d.internal_links = NonEmptyHrefs(page.anchors, TRUE)
           /\ page_info.d.external_links = NonEmptyHrefs(page.anchors, FALSE)

\* the log label of a stdout item; the header "Page Info:" and the failure
\* lines are not items
LogLabel(text) ==
    IF text = "URL is valid and returned status code: " THEN "Status Code: "
    ELSE text

IsItem(text) ==
    text \notin { "Page Info:", "URL format is invalid.", "Error: ", "URL: " }

Items(lines) == SelectSeq(Texts(lines), IsItem)

\* C9: in a run that ends normally, the items printed to stdout (status
\* code, HTTPS check, certificate, the page fields, the SEO score) each have
\* their log line, in the same order.
C9_LogMirrorsStdout ==
    (Done /\ ~ crashed)
        => [i \in 1..Len(Items(stdout)) |-> LogLabel(Items(stdout)[i])]
              = Items(log)

\* the input on which no signal is present
ZeroInput ==
    [title |-> None, description |-> None, keywords |-> None,
     internal_links |-> <<>>, external_links |-> <<>>,
     headings |-> NoHeadings, alt_tags |-> <<>>,
     text_to_html_ratio |-> Ratio(0, 1), page_load_time |-> Infinite,
     mobile_friendly |-> FALSE]

\* the awards of the signals of d, each taken alone
Alone(d) ==
    << ScoreOf([ZeroInput EXCEPT !.title = d.title]),
       ScoreOf([ZeroInput EXCEPT !.description = d.description]),
       ScoreOf([ZeroInput EXCEPT !.keywords = d.keywords]),
       ScoreOf([ZeroInput EXCEPT !.headings.h1 = d.headings.h1]),
       ScoreOf([ZeroInput EXCEPT !.headings.h2 = d.headings.h2]),
       ScoreOf([ZeroInput EXCEPT !.internal_links = d.internal_links]),
       ScoreOf([ZeroInput EXCEPT !.external_links = d.external_links]),
       ScoreOf([ZeroInput EXCEPT !.alt_tags = d.alt_tags]),
       ScoreOf([ZeroInput EXCEPT !.text_to_html_ratio = d.text_to_html_ratio]),
       ScoreOf([ZeroInput EXCEPT !.page_load_time = d.page_load_time]),
       ScoreOf([ZeroInput EXCEPT !.mobile_friendly = d.mobile_friendly]) >>

RECURSIVE Sum(_)
Sum(s) == IF s = <<>> THEN 0 ELSE Head(s) + Sum(Tail(s))

\* C10: the score is the sum of the awards of the signals each taken alone,
\* each award is 0, 5 or 10, and the load-time award is 10 below 3 seconds,
\* 5 from 3 up to but not including 5 seconds, and 0 from 5 seconds on and
\* for the infinite sentinel.
C10_SumOfAwards ==
    pc = "seo_done"
        => LET d == page_info.d
               a == Alone(d)
               t == d.page_load_time
           IN  /\ seo_score[1] = Sum(a)
               /\ \A i \in 1..Len(a) : a[i] \in {0, 5, 10}
               /\ a[10] = (IF t.inf THEN 0
                           ELSE IF t.ms < 3000 THEN 10
                           ELSE IF t.ms < 5000 THEN 5 ELSE 0)

C10_Witness ==
    /\ pc = "seo_done"
    /\ page_info.d = [BestInput EXCEPT !.page_load_time = Infinite]
    /\ seo_score = Some(95)

=============================================================================
